---- MODULE Spec2Model ----
(***************************************************************************)
(* The holiday calendar widget (CalendarView).  The repository holds two   *)
(* variants of the component:                                              *)
(*   "remote": holidays fetched from the public-holiday service            *)
(*             (src/unnamed/part_000),                                     *)
(*   "import": static mock holidays plus .ics file import                  *)
(*             (src/calendar-widget/src/components/CalendarView.tsx).      *)
(* Dates are day numbers counted from 2025-01-01 (a Wednesday); a          *)
(* 'yyyy-MM-dd' string is the triple <<yyyy, MM, dd>>; a name is a         *)
(* sequence of tokens, the token " " being white space.                    *)
(***************************************************************************)
EXTENDS Integers, Sequences, FiniteSets, TLC

\* ------------------------------------------------------------- bounds
\* baseDate ranges over MaxMonths + 1 months starting at StartMonth
MaxMonths == 2
\* fetches that may be in flight at once
MaxInFlight == 2
\* records in a list handed to the remote adapter
MaxRecords == 3
\* records in one response body of the holiday service
MaxBody == 1
\* file reads (file.text()) that may be pending at once
MaxReads == 1
\* VEVENTs in one imported file
MaxEvents == 2
\* holiday records in a holiday list handed to the render pass
MaxHolidays == 3
\* largest week count handed to the week-level decision
MaxCount == 7

\* ------------------------------------------------------ calendar math
\* the first day number is Epoch; month indexes count from its month
Epoch == <<2025, 1, 1>>
\* first month baseDate may hold: June 2025, the month of the mock data
StartMonth == (2025 - Epoch[1]) * 12 + (6 - 1)
\* the months baseDate may hold
BaseMonths == StartMonth..(StartMonth + MaxMonths)
\* month indexes the calendar tables cover
MonthIdx == 0..(StartMonth + MaxMonths + 2)

\* Date.getFullYear() / Date.getMonth() of a month index (getMonth is 0-based)
YearOfMonth(mi) == Epoch[1] + (mi \div 12)
MonthOfMonth(mi) == mi % 12

IsLeap(y) == (y % 4 = 0 /\ y % 100 # 0) \/ y % 400 = 0

\* leap days up to the end of year y
LeapDaysThrough(y) == (y \div 4) - (y \div 100) + (y \div 400)

\* days of a common year before each month
CumulativeDays == <<0, 31, 59, 90, 120, 151, 181, 212, 243, 273, 304, 334>>

\* startOfMonth: day number of the first day of month mi
startOfMonth(mi) ==
  LET y == YearOfMonth(mi)
      m == MonthOfMonth(mi)
  IN 365 * (y - Epoch[1])
     + (LeapDaysThrough(y - 1) - LeapDaysThrough(Epoch[1] - 1))
     + CumulativeDays[m + 1]
     + (IF IsLeap(y) /\ m > 1 THEN 1 ELSE 0)

\* endOfMonth: day number of the last day of month mi
endOfMonth(mi) == startOfMonth(mi + 1) - 1

\* Date.getDay(): 0 = Sunday .. 6 = Saturday; day 0, 2025-01-01, is a
\* Wednesday
getDay(n) == (n + 3) % 7

\* startOfWeek / endOfWeek with { weekStartsOn: 0 }
startOfWeek(n) == n - getDay(n)
endOfWeek(n) == n + (6 - getDay(n))

addDays(n, k) == n + k
\* addMonths / subMonths on the month of baseDate
addMonths(mi, k) == mi + k
subMonths(mi, k) == mi - k

\* the calendar, tabulated: entry n + 1 is <<month index, day of month>>
\* of day number n
RECURSIVE CalendarFrom(_)
CalendarFrom(mi) ==
  IF mi \notin MonthIdx THEN <<>>
  ELSE [d \in 1..(startOfMonth(mi + 1) - startOfMonth(mi)) |-> <<mi, d>>]
       \o CalendarFrom(mi + 1)

Calendar == CalendarFrom(0)

\* the month index a day number lies in
MonthIndexOf(n) == Calendar[n + 1][1]

\* day.getMonth()
getMonth(n) == MonthOfMonth(MonthIndexOf(n))

\* format(day, "yyyy-MM-dd")
format(n) ==
  <<YearOfMonth(Calendar[n + 1][1]), MonthOfMonth(Calendar[n + 1][1]) + 1,
    Calendar[n + 1][2]>>

\* the day number a 'yyyy-MM-dd' string names
DayNumber(s) == startOfMonth((s[1] - Epoch[1]) * 12 + (s[2] - 1)) + (s[3] - 1)

\* the loop of getMonthDays: while (day <= end) { days.push(day); day = addDays(day, 1) }
RECURSIVE DaysFrom(_, _)
DaysFrom(day, end) ==
  IF day <= end THEN <<day>> \o DaysFrom(addDays(day, 1), end) ELSE <<>>

\* getMonthDays giving six weeks from the Sunday on or before the first of
\* the month, whatever the month's last day
getMonthDaysSixWeeks(mi) ==
  DaysFrom(startOfWeek(startOfMonth(mi)),
           addDays(startOfWeek(startOfMonth(mi)), 41))

\* getMonthDays: every day from the Sunday on or before the first of the
\* month to the Saturday on or after its last day
getMonthDays(mi) ==
  DaysFrom(startOfWeek(startOfMonth(mi)), endOfWeek(endOfMonth(mi)))

\* getWeeks: consecutive groups of 7, a shorter last group kept
RECURSIVE getWeeks(_)
getWeeks(days) ==
  IF Len(days) = 0 THEN <<>>
  ELSE IF Len(days) <= 7 THEN <<days>>
  ELSE <<SubSeq(days, 1, 7)>> \o getWeeks(SubSeq(days, 8, Len(days)))

\* getWeeks(getMonthDays(monthDate)) of every month that can be rendered,
\* tabulated: entry k is the grid of month StartMonth - 2 + k
RECURSIVE GridsFrom(_)
GridsFrom(mi) ==
  IF mi > StartMonth + MaxMonths + 1 THEN <<>>
  ELSE <<getWeeks(getMonthDays(mi))>> \o GridsFrom(mi + 1)

Grids == GridsFrom(StartMonth - 1)

\* const days = getMonthDays(monthDate); const weeks = getWeeks(days)
WeeksOf(monthDate) == Grids[monthDate - StartMonth + 2]

\* const months = [subMonths(baseDate, 1), baseDate, addMonths(baseDate, 1)]
months(base) == <<subMonths(base, 1), base, addMonths(base, 1)>>

\* ------------------------------------------------------------ strings
WhiteSpace == {" "}

RECURSIVE TrimStart(_)
TrimStart(s) ==
  IF s # <<>> /\ Head(s) \in WhiteSpace THEN TrimStart(Tail(s)) ELSE s

RECURSIVE TrimEnd(_)
TrimEnd(s) ==
  IF s # <<>> /\ s[Len(s)] \in WhiteSpace
  THEN TrimEnd(SubSeq(s, 1, Len(s) - 1)) ELSE s

\* String.prototype.trim
Trim(s) == TrimEnd(TrimStart(s))

\* state value null
Null == "null"
\* the two error messages of the remote variant
UnavailableMessage == "Holiday data for India is not available from Nager API."
FetchFailedMessage == "Failed to load holiday data."
\* the alert of a failed import
ImportFailedAlert == "Failed to parse ICS file. Please check console."
\* the summary placeholder of an imported event
UnnamedEvent == <<"Unnamed", " ", "Event">>

Holiday(d, n, t) == [date |-> d, name |-> n, type |-> t]

\* the initial holidays of the two variants
InitialHolidays(v) ==
  IF v = "import"
  THEN << Holiday(<<2025, 6, 10>>, <<"Company", " ", "Retreat">>, "work"),
          Holiday(<<2025, 6, 10>>, <<"National", " ", "Day">>, "regular"),
          Holiday(<<2025, 7, 4>>, <<"Independence", " ", "Day">>, "regular") >>
  ELSE <<>>

\* -------------------------------------------- remote holiday adapter
\* a date string that is missing or empty (falsy)
NoDate == <<0, 0, 0>>
\* a localName that is not a string
NotAString == <<"undefined">>

\* new Date(dateStr) of a date-only string is midnight UTC of that date;
\* its local calendar day is the day before where the zone is behind UTC
LocalDayOfDateString(dateStr, behindUtc) ==
  IF behindUtc THEN DayNumber(dateStr) - 1 ELSE DayNumber(dateStr)

\* isWeekend: new Date(dateStr).getDay() is 0 or 6
isWeekend(dateStr, behindUtc) ==
  LET day == getDay(LocalDayOfDateString(dateStr, behindUtc))
  IN day = 0 \/ day = 6

\* the predicate of data.filter
KeepRecord(h, behindUtc) ==
  IF h.date = NoDate \/ h.localName = NotAString THEN FALSE
  ELSE IF isWeekend(h.date, behindUtc) THEN FALSE
  ELSE TRUE

filtered(data, behindUtc) ==
  LET Keep(h) == KeepRecord(h, behindUtc) IN SelectSeq(data, Keep)

\* `${h.date}|${h.localName.trim()}`
DedupKey(h) == <<h.date, Trim(h.localName)>>

\* filtered.filter with the Set seen: a record passes when its key is new
RECURSIVE UniqueFrom(_, _)
UniqueFrom(list, seen) ==
  IF list = <<>> THEN <<>>
  ELSE LET h == Head(list) IN
       IF DedupKey(h) \in seen THEN UniqueFrom(Tail(list), seen)
       ELSE <<h>> \o UniqueFrom(Tail(list), seen \cup {DedupKey(h)})

\* a deduplication that keeps the last record of each key
RECURSIVE KeepLastFrom(_)
KeepLastFrom(list) ==
  IF list = <<>> THEN <<>>
  ELSE LET h == Head(list)
           rest == Tail(list)
       IN IF \E i \in 1..Len(rest) : DedupKey(rest[i]) = DedupKey(h)
          THEN KeepLastFrom(rest)
          ELSE <<h>> \o KeepLastFrom(rest)

uniqueHolidaysKeepLast(list) == KeepLastFrom(list)

uniqueHolidays(list) == UniqueFrom(list, {})

\* uniqueHolidays.map: date, trimmed name, type regular
parsed(list) ==
  [i \in 1..Len(list) |-> Holiday(list[i].date, Trim(list[i].localName), "regular")]

\* what a successful response puts into setHolidays
RemoteHolidays(data, behindUtc) == parsed(uniqueHolidays(filtered(data, behindUtc)))

\* --------------------------------------------------- file import adapter
\* vevents.map: one record per event; a throw inside the try block (the
\* text does not parse, an event has no start date) gives no list
ImportThrows(file) ==
  \/ ~file.parses
  \/ \E i \in 1..Len(file.events) : file.events[i].start = NoDate

parsedHolidays(file) ==
  [i \in 1..Len(file.events) |->
     Holiday(file.events[i].start,
             IF file.events[i].summary = <<>> THEN UnnamedEvent
             ELSE file.events[i].summary,
             "regular")]

\* ------------------------------------------------------- week classifier
\* holidays.filter((h) => h.date === dateStr && h.type === type)
MatchingOfType(hol, dateStr, type) ==
  LET Match(h) == h.date = dateStr /\ h.type = type IN SelectSeq(hol, Match)

\* holidays.filter((h) => h.date === dayStr)
MatchingDate(hol, dateStr) ==
  LET Match(h) == h.date = dateStr IN SelectSeq(hol, Match)

\* countHolidaysInWeekByMonth (remote variant): the size of the Set of the
\* dates of the week's days that lie in currentMonth and have a match
RECURSIVE UniqueDatesByMonth(_, _, _, _, _)
UniqueDatesByMonth(week, type, currentMonth, hol, uniqueDates) ==
  IF week = <<>> THEN uniqueDates
  ELSE LET day == Head(week)
           dateStr == format(day)
           isInCurrentMonth == getMonth(day) = currentMonth
       IN UniqueDatesByMonth(Tail(week), type, currentMonth, hol,
            IF ~isInCurrentMonth THEN uniqueDates
            ELSE IF Len(MatchingOfType(hol, dateStr, type)) > 0
            THEN uniqueDates \cup {dateStr}
            ELSE uniqueDates)

\* countHolidaysInWeek: the same count without the test on the month
countHolidaysInWeekAnyMonth(week, type, currentMonth, hol) ==
  Cardinality({ format(week[i]) : i \in { j \in 1..Len(week) :
                  Len(MatchingOfType(hol, format(week[j]), type)) > 0 } })

countHolidaysInWeekByMonth(week, type, currentMonth, hol) ==
  Cardinality(UniqueDatesByMonth(week, type, currentMonth, hol, {}))

\* countWorkHolidaysInWeek (import variant): week.reduce adding, per day,
\* the number of work records of that date
RECURSIVE countWorkHolidaysInWeek(_, _)
countWorkHolidaysInWeek(week, hol) ==
  IF week = <<>> THEN 0
  ELSE Len(MatchingOfType(hol, format(Head(week)), "work"))
       + countWorkHolidaysInWeek(Tail(week), hol)

\* the holiday types a variant counts per week
CountedTypes(v) == IF v = "remote" THEN {"work", "regular"} ELSE {"work"}

\* the week counts a variant computes for a week of the grid of monthDate
WeekCounts(v, week, monthDate, hol) ==
  IF v = "remote"
  THEN [type \in {"work", "regular"} |->
          countHolidaysInWeekByMonth(week, type, MonthOfMonth(monthDate), hol)]
  ELSE [type \in {"work"} |-> countWorkHolidaysInWeek(week, hol)]

\* the remote decision with the work rules tested before the override
weekClassRemoteWorkFirst(workCount, regularCount) ==
  {"mb-1", "rounded"} \cup
  ( IF workCount > 1 THEN {"bg-green-200"}
    ELSE IF workCount = 1 THEN {"border-2", "border-green-400"}
    ELSE IF regularCount >= 2 THEN {"bg-gray-600", "text-white"}
    ELSE IF regularCount = 1 THEN {"border-2", "border-gray-300"}
    ELSE {} )

\* weekClass of the remote variant, as the set of its class names
weekClassRemote(workCount, regularCount) ==
  {"mb-1", "rounded"} \cup
  ( IF regularCount >= 2 THEN {"bg-gray-600", "text-white"}
    ELSE IF workCount > 1 THEN {"bg-green-200"}
    ELSE IF workCount = 1 THEN {"border-2", "border-green-400"}
    ELSE IF regularCount = 1 THEN {"border-2", "border-gray-300"}
    ELSE {} )

\* weekClass of the import variant
weekClassImport(workHolidayCount) ==
  IF workHolidayCount = 1 THEN {"border-2", "border-green-400", "rounded", "mb-1"}
  ELSE IF workHolidayCount > 1 THEN {"bg-green-200", "rounded", "mb-1"}
  ELSE {"mb-1"}

\* regularCount is read by the remote variant only
weekClass(v, workCount, regularCount) ==
  IF v = "remote" THEN weekClassRemote(workCount, regularCount)
  ELSE weekClassImport(workCount)

\* the override flag never set
overrideWeekDarkGreyNever(v, counts) == FALSE

\* const overrideWeekDarkGrey = regularCount >= 2 (remote variant only)
overrideWeekDarkGrey(v, counts) == v = "remote" /\ counts["regular"] >= 2

\* ------------------------------------------------------------- day cells
\* <div key={idx2} />: the cell of a day the filter omits
EmptyCell ==
  [omitted |-> TRUE, label |-> 0, holidays |-> <<>>, bgColor |-> "",
   textColor |-> "", badge |-> <<>>, badgeColor |-> ""]

\* the filter with its test inverted
SkipCellInverted(show, dayHolidays) == show /\ Len(dayHolidays) > 0

\* if (showOnlyHolidays && dayHolidays.length === 0) return <div />
SkipCell(show, dayHolidays) == show /\ Len(dayHolidays) = 0

hasType(dayHolidays, type) ==
  \E i \in 1..Len(dayHolidays) : dayHolidays[i].type = type

\* the day cell of the remote variant showing an icon for each type the day
\* carries
DayCellRemoteBothIcons(day, monthDate, hol, show, today, override) ==
  LET dayStr == format(day)
      isCurrentMonth == MonthOfMonth(monthDate) = getMonth(day)
      dayHolidays == IF isCurrentMonth THEN MatchingDate(hol, dayStr) ELSE <<>>
      hasWorkHoliday == hasType(dayHolidays, "work")
      hasRegularHoliday == hasType(dayHolidays, "regular")
  IN IF SkipCell(show, dayHolidays) THEN EmptyCell
     ELSE [omitted |-> FALSE,
           label |-> dayStr[3],
           holidays |-> dayHolidays,
           bgColor |-> IF override THEN ""
                       ELSE IF day = today THEN "bg-blue-300"
                       ELSE IF hasWorkHoliday THEN "bg-green-300"
                       ELSE IF hasRegularHoliday THEN "bg-yellow-200"
                       ELSE "",
           textColor |-> IF override THEN "text-white"
                         ELSE IF isCurrentMonth THEN "text-gray-900"
                         ELSE "text-gray-400",
           badge |-> (IF hasWorkHoliday THEN <<"work-icon">> ELSE <<>>)
                     \o (IF hasRegularHoliday THEN <<"regular-icon">> ELSE <<>>),
           badgeColor |-> IF Len(dayHolidays) = 0 THEN ""
                          ELSE IF override THEN "text-white"
                          ELSE "text-gray-700"]

\* the day cell of the remote variant
DayCellRemote(day, monthDate, hol, show, today, override) ==
  LET dayStr == format(day)
      isCurrentMonth == MonthOfMonth(monthDate) = getMonth(day)
      dayHolidays == IF isCurrentMonth THEN MatchingDate(hol, dayStr) ELSE <<>>
      hasWorkHoliday == hasType(dayHolidays, "work")
      hasRegularHoliday == hasType(dayHolidays, "regular")
      bgColor == IF ~override
                 THEN (IF day = today THEN "bg-blue-300"
                       ELSE IF hasWorkHoliday THEN "bg-green-300"
                       ELSE IF hasRegularHoliday THEN "bg-yellow-200"
                       ELSE "")
                 ELSE ""
      textColor == IF override THEN "text-white"
                   ELSE IF isCurrentMonth THEN "text-gray-900"
                   ELSE "text-gray-400"
  IN IF SkipCell(show, dayHolidays) THEN EmptyCell
     ELSE [omitted |-> FALSE,
           label |-> dayStr[3],
           holidays |-> dayHolidays,
           bgColor |-> bgColor,
           textColor |-> textColor,
           badge |-> IF Len(dayHolidays) > 0
                     THEN (IF hasWorkHoliday THEN <<"work-icon">>
                           ELSE IF hasRegularHoliday THEN <<"regular-icon">>
                           ELSE <<"">>)
                     ELSE <<>>,
           badgeColor |-> IF Len(dayHolidays) = 0 THEN ""
                          ELSE IF override THEN "text-white"
                          ELSE "text-gray-700"]

\* the day cell of the import variant
DayCellImport(day, monthDate, hol, show, today) ==
  LET dayStr == format(day)
      dayHolidays == MatchingDate(hol, dayStr)
      hasWorkHoliday == hasType(dayHolidays, "work")
      hasRegularHoliday == hasType(dayHolidays, "regular")
      isCurrentMonth == MonthOfMonth(monthDate) = getMonth(day)
      bgColor == IF day = today THEN "bg-blue-300"
                 ELSE IF hasWorkHoliday THEN "bg-green-300"
                 ELSE IF hasRegularHoliday THEN "bg-yellow-200"
                 ELSE ""
      textColor == IF isCurrentMonth THEN "text-gray-900" ELSE "text-gray-400"
  IN IF SkipCell(show, dayHolidays) THEN EmptyCell
     ELSE [omitted |-> FALSE,
           label |-> dayStr[3],
           holidays |-> dayHolidays,
           bgColor |-> bgColor,
           textColor |-> textColor,
           badge |-> [i \in 1..Len(dayHolidays) |->
                        IF dayHolidays[i].type = "work" THEN "work-icon"
                        ELSE "regular-icon"],
           badgeColor |-> IF Len(dayHolidays) = 0 THEN "" ELSE "text-gray-700"]

\* weeks.map: one week row of the grid of monthDate
WeekRow(v, week, monthDate, hol, show, today) ==
  LET counts == WeekCounts(v, week, monthDate, hol)
      override == overrideWeekDarkGrey(v, counts)
  IN [counts |-> counts,
      weekClass |-> weekClass(v, counts["work"],
                              IF v = "remote" THEN counts["regular"] ELSE 0),
      cells |-> [i \in 1..Len(week) |->
                   IF v = "remote"
                   THEN DayCellRemote(week[i], monthDate, hol, show, today, override)
                   ELSE DayCellImport(week[i], monthDate, hol, show, today)]]

\* months.map: the grid of one month
MonthView(v, monthDate, hol, show, today) ==
  LET weeks == WeeksOf(monthDate)
  IN [monthDate |-> monthDate,
      weeks |-> weeks,
      rows |-> [w \in 1..Len(weeks) |->
                  WeekRow(v, weeks[w], monthDate, hol, show, today)]]

\* the three months rendered for baseDate
Render(v, base, hol, show, today) ==
  [k \in 1..3 |-> MonthView(v, months(base)[k], hol, show, today)]

\* ------------------------------------------------------ input universes
SeqsUpTo(S, n) == UNION {[1..k -> S] : k \in 0..n}

\* country codes offered by the selection control (the list fetchCountries
\* loads)
Countries == {"US", "DE", "IN"}

\* records the holiday service may return: a Saturday, a Monday (twice,
\* the names differing in white space only, and under a second name), a
\* record with no date and one whose localName is no string
RawRecords ==
  { [date |-> <<2025, 6, 7>>, localName |-> <<"A">>],
    [date |-> <<2025, 6, 9>>, localName |-> <<"A">>],
    [date |-> <<2025, 6, 9>>, localName |-> <<" ", "A", " ">>],
    [date |-> <<2025, 6, 9>>, localName |-> <<"B">>],
    [date |-> NoDate, localName |-> <<"A">>],
    [date |-> <<2025, 6, 9>>, localName |-> NotAString] }

\* the records of a response body: a Saturday, a Monday, a record with no date
BodyRecords ==
  { [date |-> <<2025, 6, 7>>, localName |-> <<"A">>],
    [date |-> <<2025, 6, 9>>, localName |-> <<" ", "A", " ">>],
    [date |-> NoDate, localName |-> <<"A">>] }

\* the response bodies the holiday service may send
RawResponses == SeqsUpTo(BodyRecords, MaxBody)

\* the record lists handed to the remote adapter
RawLists == SeqsUpTo(RawRecords, MaxRecords)

\* VEVENTs with a start date, with and without a summary (<<>>: none)
Events ==
  { [start |-> <<2025, 6, 30>>, summary |-> <<"A">>],
    [start |-> <<2025, 6, 30>>, summary |-> <<>>] }

\* a VEVENT without DTSTART: event.startDate is null
EventWithoutStart == [start |-> NoDate, summary |-> <<"A">>]

\* the text of a selected file: whether ICAL.parse accepts it, and its events
Files ==
  {[parses |-> FALSE, events |-> <<>>]}
  \cup {[parses |-> TRUE, events |-> e] : e \in SeqsUpTo(Events, MaxEvents)}
  \cup {[parses |-> TRUE, events |-> <<e, EventWithoutStart>>] : e \in Events}

\* ---------------------------------------------------------------- state
VARIABLES
  variant,             \* which variant of the component runs
  behindUtc,           \* whether the viewer's time zone is behind UTC
  baseDate,            \* useState(new Date()): the month index of baseDate
  countryCode,         \* useState("US")
  holidays,            \* useState<Holiday[]>
  showOnlyHolidays,    \* useState(false)
  errorMessage,        \* useState<string | null>(null)
  availableCountries,  \* useState([]): the country codes loaded
  countriesRequest,    \* the fetch of fetchCountries: "inflight" or "done"
  pending,             \* fetchHolidays calls awaiting their response, in
                       \* the order issued; stale: a later call was issued
  reading,             \* handleICSFile calls awaiting file.text()
  alert,               \* the alert the last handler raised, or Null
  lastOp,              \* the handler or callback that ran last
  probe                \* input and output of a pure function under test

vars ==
  <<variant, behindUtc, baseDate, countryCode, holidays, showOnlyHolidays,
    errorMessage, availableCountries, countriesRequest, pending, reading,
    alert, lastOp, probe>>

\* what no handler writes, and the state of fetchCountries
environment == <<variant, behindUtc, probe>>
countries == <<availableCountries, countriesRequest>>

NoProbe == [fn |-> "none"]

\* lastOp: the handler or callback, and the file text it read
NoFile == [parses |-> FALSE, events |-> <<>>]
Op(name) == [op |-> name, file |-> NoFile]
OpFile(name, f) == [op |-> name, file |-> f]

\* a request of fetchHolidays: PublicHolidays/${year}/${countryCode}
Request(c, base) == [country |-> c, year |-> YearOfMonth(base), stale |-> FALSE]

MarkStale(reqs) == [i \in 1..Len(reqs) |-> [reqs[i] EXCEPT !.stale = TRUE]]

RemoveAt(seq, i) == SubSeq(seq, 1, i - 1) \o SubSeq(seq, i + 1, Len(seq))

\* the state after the component mounted and its effects ran up to their
\* first await
InitProgram(v, tz, base) ==
  /\ variant = v
  /\ behindUtc = tz
  /\ baseDate = base
  /\ countryCode = "US"
  /\ holidays = InitialHolidays(v)
  /\ showOnlyHolidays = FALSE
  /\ errorMessage = Null
  /\ availableCountries = {}
  /\ countriesRequest = IF v = "remote" THEN "inflight" ELSE "done"
  /\ pending = IF v = "remote" THEN <<Request("US", base)>> ELSE <<>>
  /\ reading = <<>>
  /\ alert = Null
  /\ lastOp = Op("mount")

Init ==
  /\ \E v \in {"remote", "import"}, base \in BaseMonths :
       \E tz \in (IF v = "remote" THEN BOOLEAN ELSE {FALSE}) :
          InitProgram(v, tz, base)
  /\ probe = NoProbe

\* the effect on [baseDate, countryCode]: fetchHolidays up to its first await
\* (the import variant has no such effect)
FetchHolidaysEffect(c, base) ==
  IF variant = "import"
  THEN UNCHANGED <<holidays, errorMessage, pending>>
  ELSE IF c = "IN"
  THEN /\ holidays' = <<>>
       /\ errorMessage' = UnavailableMessage
       /\ pending' = MarkStale(pending)
  ELSE /\ errorMessage' = Null
       /\ pending' = Append(MarkStale(pending), Request(c, base))
       /\ UNCHANGED holidays

\* the model holds at most MaxInFlight fetches in flight
CanFetch(c) == variant = "import" \/ c = "IN" \/ Len(pending) < MaxInFlight

\* onChange of the country select: setCountryCode, then the effect
SelectCountry(c) ==
  /\ variant = "remote"
  /\ c \in availableCountries
  /\ c # countryCode
  /\ CanFetch(c)
  /\ countryCode' = c
  /\ FetchHolidaysEffect(c, baseDate)
  /\ alert' = Null
  /\ lastOp' = Op(IF c = "IN" THEN "unavailable" ELSE "fetch")
  /\ UNCHANGED <<environment, countries, baseDate, showOnlyHolidays, reading>>

\* the Previous and Next buttons: setBaseDate, then the effect
Navigate(base) ==
  /\ base \in BaseMonths
  /\ CanFetch(countryCode)
  /\ baseDate' = base
  /\ FetchHolidaysEffect(countryCode, base)
  /\ alert' = Null
  /\ lastOp' = Op(IF variant = "import" THEN "navigate"
                  ELSE IF countryCode = "IN" THEN "unavailable" ELSE "fetch")
  /\ UNCHANGED <<environment, countries, countryCode, showOnlyHolidays, reading>>

Previous == Navigate(subMonths(baseDate, 1))

NextMonth == Navigate(addMonths(baseDate, 1))

\* the Show Only Holidays checkbox
ToggleShowOnlyHolidays ==
  /\ showOnlyHolidays' = ~showOnlyHolidays
  /\ alert' = Null
  /\ lastOp' = Op("toggle")
  /\ UNCHANGED <<environment, countries, baseDate, countryCode, holidays,
                 errorMessage, pending, reading>>

\* a response of the holiday service arrives and parses: setHolidays(parsed)
FetchSucceeds(i, data) ==
  /\ i \in 1..Len(pending)
  /\ holidays' = RemoteHolidays(data, behindUtc)
  /\ pending' = RemoveAt(pending, i)
  /\ alert' = Null
  /\ lastOp' = Op(IF pending[i].stale THEN "staleFetchOk" ELSE "fetchOk")
  /\ UNCHANGED <<environment, countries, baseDate, countryCode,
                 showOnlyHolidays, errorMessage, reading>>

\* a catch block that leaves the holidays displayed
FetchFailsKeepsHolidays(i) ==
  /\ i \in 1..Len(pending)
  /\ errorMessage' = FetchFailedMessage
  /\ pending' = RemoveAt(pending, i)
  /\ alert' = Null
  /\ lastOp' = Op(IF pending[i].stale THEN "staleFetchFailed" ELSE "fetchFailed")
  /\ UNCHANGED <<environment, countries, baseDate, countryCode, holidays,
                 showOnlyHolidays, reading>>

\* the catch block: the response is not OK, the network fails or the body
\* does not parse
FetchFails(i) ==
  /\ i \in 1..Len(pending)
  /\ holidays' = <<>>
  /\ errorMessage' = FetchFailedMessage
  /\ pending' = RemoveAt(pending, i)
  /\ alert' = Null
  /\ lastOp' = Op(IF pending[i].stale THEN "staleFetchFailed" ELSE "fetchFailed")
  /\ UNCHANGED <<environment, countries, baseDate, countryCode,
                 showOnlyHolidays, reading>>

\* fetchCountries: the list arrives, or the fetch fails and is only logged
CountriesArrive(ok) ==
  /\ countriesRequest = "inflight"
  /\ countriesRequest' = "done"
  /\ availableCountries' = IF ok THEN Countries ELSE availableCountries
  /\ alert' = Null
  /\ lastOp' = Op("countries")
  /\ UNCHANGED <<environment, baseDate, countryCode, holidays,
                 showOnlyHolidays, errorMessage, pending, reading>>

\* handleICSFile up to await file.text(); no file chosen: return
ChooseFile(hasFile, f) ==
  /\ variant = "import"
  /\ hasFile => Len(reading) < MaxReads
  /\ reading' = IF hasFile THEN Append(reading, f) ELSE reading
  /\ alert' = Null
  /\ lastOp' = Op(IF hasFile THEN "choose" ELSE "noFile")
  /\ UNCHANGED <<environment, countries, baseDate, countryCode, holidays,
                 showOnlyHolidays, errorMessage, pending>>

\* an import whose catch block clears the holidays, as the remote one does
FileTextReadClearsOnFailure(i) ==
  /\ i \in 1..Len(reading)
  /\ reading' = RemoveAt(reading, i)
  /\ IF ImportThrows(reading[i])
     THEN /\ alert' = ImportFailedAlert
          /\ lastOp' = Op("importFailed")
          /\ holidays' = <<>>
          /\ UNCHANGED showOnlyHolidays
     ELSE /\ holidays' = parsedHolidays(reading[i])
          /\ showOnlyHolidays' = FALSE
          /\ alert' = Null
          /\ lastOp' = OpFile("importOk", reading[i])
  /\ UNCHANGED <<environment, countries, baseDate, countryCode, errorMessage,
                 pending>>

\* an import that leaves the show-only-holidays filter as it was
FileTextReadKeepsFilter(i) ==
  /\ i \in 1..Len(reading)
  /\ reading' = RemoveAt(reading, i)
  /\ IF ImportThrows(reading[i])
     THEN /\ alert' = ImportFailedAlert
          /\ lastOp' = Op("importFailed")
          /\ UNCHANGED <<holidays, showOnlyHolidays>>
     ELSE /\ holidays' = parsedHolidays(reading[i])
          /\ alert' = Null
          /\ lastOp' = OpFile("importOk", reading[i])
          /\ UNCHANGED showOnlyHolidays
  /\ UNCHANGED <<environment, countries, baseDate, countryCode, errorMessage,
                 pending>>

\* handleICSFile after await file.text(): the try block and its catch
FileTextRead(i) ==
  /\ i \in 1..Len(reading)
  /\ reading' = RemoveAt(reading, i)
  /\ IF ImportThrows(reading[i])
     THEN /\ alert' = ImportFailedAlert
          /\ lastOp' = Op("importFailed")
          /\ UNCHANGED <<holidays, showOnlyHolidays>>
     ELSE /\ holidays' = parsedHolidays(reading[i])
          /\ showOnlyHolidays' = FALSE
          /\ alert' = Null
          /\ lastOp' = OpFile("importOk", reading[i])
  /\ UNCHANGED <<environment, countries, baseDate, countryCode, errorMessage,
                 pending>>

Next ==
  \/ \E c \in Countries : SelectCountry(c)
  \/ Previous
  \/ NextMonth
  \/ ToggleShowOnlyHolidays
  \/ \E i \in 1..MaxInFlight, data \in RawResponses : FetchSucceeds(i, data)
  \/ \E i \in 1..MaxInFlight : FetchFails(i)
  \/ \E ok \in BOOLEAN : CountriesArrive(ok)
  \/ \E hasFile \in BOOLEAN, f \in Files : ChooseFile(hasFile, f)
  \/ \E i \in 1..MaxReads : FileTextRead(i)

Spec == Init /\ [][Next]_vars

\* ---------------------------------------- the week-level decision, probed
\* the week-level decision applied to a pair of counts
WeekClassProbe(v, w, r) ==
  [fn |-> "weekClass", variant |-> v, work |-> w, regular |-> r,
   out |-> weekClass(v, w, r)]

ProgramIdle == InitProgram("import", FALSE, StartMonth)

InitWeekClass ==
  /\ ProgramIdle
  /\ \E v \in {"remote", "import"}, w \in 0..MaxCount, r \in 0..MaxCount :
       probe = WeekClassProbe(v, w, r)

ProgramUnchanged ==
  UNCHANGED <<variant, behindUtc, baseDate, countryCode, holidays,
              showOnlyHolidays, errorMessage, countries, pending, reading,
              alert, lastOp>>

OneMoreWorkDay ==
  /\ probe.work < MaxCount
  /\ probe' = WeekClassProbe(probe.variant, probe.work + 1, probe.regular)
  /\ ProgramUnchanged

OneMoreRegularDay ==
  /\ probe.regular < MaxCount
  /\ probe' = WeekClassProbe(probe.variant, probe.work, probe.regular + 1)
  /\ ProgramUnchanged

NextWeekClass == OneMoreWorkDay \/ OneMoreRegularDay

SpecWeekClass == InitWeekClass /\ [][NextWeekClass]_vars

\* ------------------------------------------------ the render pass, probed
\* holiday records handed to the render pass: the last two days of a week
\* that June and July 2025 share (Mon 30 June, Tue 1 July) and Fri 4 July
RenderHolidays ==
  { Holiday(d, n, t) : d \in {<<2025, 6, 30>>, <<2025, 7, 1>>, <<2025, 7, 4>>},
                       n \in {<<"A">>},
                       t \in {"regular", "work"} }

HolidayLists == SeqsUpTo(RenderHolidays, MaxHolidays)

\* the days "today" may be: a day with and a day without holiday records
Todays == {DayNumber(<<2025, 7, 1>>), DayNumber(<<2025, 7, 15>>)}

\* the render pass applied to a holiday list, a month and a day, with the
\* show-only-holidays filter off and on
RenderProbe(v, hol, base, today) ==
  [fn |-> "render", variant |-> v, holidays |-> hol, baseDate |-> base,
   today |-> today,
   view |-> [show \in BOOLEAN |-> Render(v, base, hol, show, today)]]

InitRender ==
  /\ ProgramIdle
  /\ \E v \in {"remote", "import"}, hol \in HolidayLists, base \in BaseMonths,
        today \in Todays :
       probe = RenderProbe(v, hol, base, today)

\* the same holidays rendered for the month before or after
RenderMonth(base) ==
  /\ base \in BaseMonths
  /\ probe' = RenderProbe(probe.variant, probe.holidays, base, probe.today)
  /\ ProgramUnchanged

RenderPrevious == RenderMonth(subMonths(probe.baseDate, 1))

RenderNext == RenderMonth(addMonths(probe.baseDate, 1))

NextRender == RenderPrevious \/ RenderNext

SpecRender == InitRender /\ [][NextRender]_vars

\* ---------------------------------------------- the adapters, probed
\* an adapter applied to its input: the remote adapter to a record list in
\* a time zone, the import adapter to a file whose try block does not throw
AdapterProbe(source, data, file, tz) ==
  [fn |-> "adapter", source |-> source, data |-> data, file |-> file,
   behindUtc |-> tz,
   out |-> IF source = "remote" THEN RemoteHolidays(data, tz)
           ELSE parsedHolidays(file)]

InitAdapters ==
  /\ ProgramIdle
  /\ \/ \E data \in RawLists, tz \in BOOLEAN :
          probe = AdapterProbe("remote", data, NoFile, tz)
     \/ \E f \in {g \in Files : ~ImportThrows(g)} :
          probe = AdapterProbe("import", <<>>, f, FALSE)

\* the same list adapted in the other kind of time zone
OtherTimeZone ==
  /\ probe.source = "remote"
  /\ probe' = AdapterProbe("remote", probe.data, NoFile, ~probe.behindUtc)
  /\ ProgramUnchanged

\* the input without its first record or event
ShorterInput ==
  /\ IF probe.source = "remote"
     THEN /\ probe.data # <<>>
          /\ probe' = AdapterProbe("remote", Tail(probe.data), NoFile,
                                   probe.behindUtc)
     ELSE /\ probe.file.events # <<>>
          /\ probe' = AdapterProbe("import", <<>>,
                        [probe.file EXCEPT !.events = Tail(probe.file.events)],
                        FALSE)
  /\ ProgramUnchanged

NextAdapters == OtherTimeZone \/ ShorterInput

SpecAdapters == InitAdapters /\ [][NextAdapters]_vars

\* ================================================================ claims

\* the week-level highlight a set of class names shows
HighlightOf(cls) ==
  IF "bg-gray-600" \in cls THEN "darkOverride"
  ELSE IF "bg-green-200" \in cls THEN "filled"
  ELSE IF "border-green-400" \in cls THEN "workOutline"
  ELSE IF "border-gray-300" \in cls THEN "lightOutline"
  ELSE "none"

\* the strict priority order: regular >= 2, work > 1, work = 1, regular = 1
PriorityHighlight(w, r) ==
  IF r >= 2 THEN "darkOverride"
  ELSE IF w > 1 THEN "filled"
  ELSE IF w = 1 THEN "workOutline"
  ELSE IF r = 1 THEN "lightOutline"
  ELSE "none"

\* C1 as stated: for every pair of counts, in every variant, the week-level
\* highlight is the one the strict priority order gives.
C1_StrictPriorityInEveryVariant ==
  probe.fn = "weekClass" =>
    HighlightOf(probe.out) = PriorityHighlight(probe.work, probe.regular)

\* C1 amended: in the remote variant the week-level highlight is the one the
\* strict priority order gives; in the import variant the work count alone
\* decides (1: work outline, more than 1: filled, otherwise none).
C1_StrictPriorityInRemoteVariant ==
  probe.fn = "weekClass" =>
    IF probe.variant = "remote"
    THEN HighlightOf(probe.out) = PriorityHighlight(probe.work, probe.regular)
    ELSE HighlightOf(probe.out) =
           (IF probe.work = 1 THEN "workOutline"
            ELSE IF probe.work > 1 THEN "filled" ELSE "none")

\* a week of the remote variant with 2 regular-holiday days and 3
\* work-holiday days, shown with the dark override
C1_Witness ==
  /\ probe.fn = "weekClass"
  /\ probe.variant = "remote"
  /\ probe.regular = 2
  /\ probe.work = 3
  /\ HighlightOf(probe.out) = "darkOverride"

\* the number of distinct days of a week that lie in the rendered month and
\* carry at least one holiday of the type
DistinctDaysInMonth(week, type, monthDate, hol) ==
  Cardinality({ i \in 1..Len(week) :
    /\ getMonth(week[i]) = MonthOfMonth(monthDate)
    /\ \E j \in 1..Len(hol) :
         hol[j].date = format(week[i]) /\ hol[j].type = type })

\* the number of records of the type dated on a day of the week
RecordsInWeek(week, type, hol) ==
  Cardinality({ j \in 1..Len(hol) :
    /\ hol[j].type = type
    /\ \E i \in 1..Len(week) : hol[j].date = format(week[i]) })

\* C2 as stated: in every variant, for every rendered month, week and counted
\* type, the week count is the number of distinct days of the week that lie
\* in the rendered month and carry a holiday of that type.
C2_DistinctDayCountsInEveryVariant ==
  probe.fn = "render" =>
    \A show \in BOOLEAN, k \in 1..3 :
      LET month == probe.view[show][k] IN
      \A w \in 1..Len(month.rows), type \in CountedTypes(probe.variant) :
        month.rows[w].counts[type] =
          DistinctDaysInMonth(month.weeks[w], type, month.monthDate,
                              probe.holidays)

\* C2 amended: in the remote variant, for every rendered month, week and
\* type, the week count is the number of distinct days of the week that lie
\* in the rendered month and carry a holiday of that type; the import
\* variant counts the work records dated on any day of the week.
C2_DistinctDayCountsInRemoteVariant ==
  probe.fn = "render" =>
    \A show \in BOOLEAN, k \in 1..3 :
      LET month == probe.view[show][k] IN
      \A w \in 1..Len(month.rows) :
        IF probe.variant = "remote"
        THEN \A type \in {"work", "regular"} :
               month.rows[w].counts[type] =
                 DistinctDaysInMonth(month.weeks[w], type, month.monthDate,
                                     probe.holidays)
        ELSE month.rows[w].counts["work"] =
               RecordsInWeek(month.weeks[w], "work", probe.holidays)

\* the remote variant renders June and July 2025 with two regular holidays
\* on 1 July: the week of 29 June counts none in June's grid and one day
\* in July's grid
C2_Witness ==
  /\ probe.fn = "render"
  /\ probe.variant = "remote"
  /\ probe.baseDate = StartMonth
  /\ probe.holidays = << Holiday(<<2025, 7, 1>>, <<"A">>, "regular"),
                         Holiday(<<2025, 7, 1>>, <<"A">>, "regular") >>
  /\ LET june == probe.view[FALSE][2]
         july == probe.view[FALSE][3]
     IN /\ june.weeks[Len(june.weeks)] = july.weeks[1]
        /\ june.rows[Len(june.rows)].counts["regular"] = 0
        /\ july.rows[1].counts["regular"] = 1

\* C3 as stated: the response or failure of a request that is no longer the
\* latest one never changes the holiday set or the error message.
C3_StaleResponseNeverOverwrites ==
  [][ lastOp'.op \in {"staleFetchOk", "staleFetchFailed"}
        => (holidays' = holidays /\ errorMessage' = errorMessage) ]_vars

\* whether a 'yyyy-MM-dd' date is a Saturday or a Sunday of the calendar
IsCalendarWeekend(dateStr) == getDay(DayNumber(dateStr)) \in {0, 6}

\* C4 as stated: the remote adapter's holiday set holds no record dated on a
\* Saturday or Sunday, and holds every record of the list that has a date on
\* Monday to Friday and a string name.
C4_WeekendsDroppedWeekdaysKept ==
  (probe.fn = "adapter" /\ probe.source = "remote") =>
    /\ \A i \in 1..Len(probe.out) : ~IsCalendarWeekend(probe.out[i].date)
    /\ \A j \in 1..Len(probe.data) :
         LET h == probe.data[j] IN
         (h.date # NoDate /\ h.localName # NotAString
            /\ ~IsCalendarWeekend(h.date))
         => \E i \in 1..Len(probe.out) :
              probe.out[i] = Holiday(h.date, Trim(h.localName), "regular")

NoDuplicates(hol) ==
  \A i, j \in 1..Len(hol) :
    i # j => <<hol[i].date, hol[i].name>> # <<hol[j].date, hol[j].name>>

\* the index of the first record of a list with the key
FirstIndexOf(list, key) ==
  CHOOSE i \in 1..Len(list) :
    /\ DedupKey(list[i]) = key
    /\ \A j \in 1..(i - 1) : DedupKey(list[j]) # key

\* out holds one record per key of list, in the order of the keys' first
\* occurrences
FirstOccurrences(list, out) ==
  /\ NoDuplicates(out)
  /\ \A i \in 1..Len(list) :
       \E k \in 1..Len(out) : <<out[k].date, out[k].name>> = DedupKey(list[i])
  /\ \A k \in 1..Len(out) :
       /\ out[k].type = "regular"
       /\ \E i \in 1..Len(list) : <<out[k].date, out[k].name>> = DedupKey(list[i])
  /\ \A k, l \in 1..Len(out) :
       k < l => FirstIndexOf(list, <<out[k].date, out[k].name>>)
                  < FirstIndexOf(list, <<out[l].date, out[l].name>>)

\* C5 as stated: no holiday set an adapter produces holds two records with
\* the same (date, name) pair.
C5_NoDuplicatesFromEveryAdapter ==
  probe.fn = "adapter" => NoDuplicates(probe.out)

\* C5 amended: the holiday set of the remote adapter holds no two records
\* with the same (date, name) pair, its key is (date, trimmed name) and the
\* first record of each key is the one kept; the import adapter keeps one
\* record per event, equal ones included.
C5_NoDuplicatesFromRemoteAdapter ==
  probe.fn = "adapter" =>
    IF probe.source = "remote"
    THEN FirstOccurrences(filtered(probe.data, probe.behindUtc), probe.out)
    ELSE Len(probe.out) = Len(probe.file.events)

\* the remote adapter is handed Monday "A", Monday "B" and Monday " A " and
\* keeps "A" before "B"
C5_Witness ==
  /\ probe.fn = "adapter"
  /\ probe.source = "remote"
  /\ ~probe.behindUtc
  /\ probe.data = << [date |-> <<2025, 6, 9>>, localName |-> <<"A">>],
                     [date |-> <<2025, 6, 9>>, localName |-> <<"B">>],
                     [date |-> <<2025, 6, 9>>, localName |-> <<" ", "A", " ">>] >>
  /\ probe.out = << Holiday(<<2025, 6, 9>>, <<"A">>, "regular"),
                    Holiday(<<2025, 6, 9>>, <<"B">>, "regular") >>

\* C6: after a failed fetch the holiday set is empty and the error message
\* is the fetch-failed message, which is not the data-unavailable message.
C6_FailedFetchClearsHolidays ==
  lastOp.op \in {"fetchFailed", "staleFetchFailed"} =>
    /\ holidays = <<>>
    /\ errorMessage = FetchFailedMessage
    /\ errorMessage # UnavailableMessage

\* the fetch of a country that is not blocked has just failed
C6_Witness ==
  /\ lastOp.op = "fetchFailed"
  /\ countryCode = "DE"
  /\ pending = <<>>
  /\ holidays = <<>>
  /\ errorMessage = FetchFailedMessage

\* C7 as stated: while the blocked country is selected the holiday set is
\* empty.
C7_BlockedCountryStaysEmpty ==
  (variant = "remote" /\ countryCode = "IN") => holidays = <<>>

\* C8: a failed import leaves the holiday set and the show-only-holidays
\* filter as they were and raises the alert.
C8_FailedImportChangesNothing ==
  [][ (lastOp'.op = "importFailed")
        => /\ holidays' = holidays
           /\ showOnlyHolidays' = showOnlyHolidays
           /\ alert' = ImportFailedAlert ]_vars

\* an import has just failed with the filter on and holidays displayed
C8_Witness ==
  /\ lastOp.op = "importFailed"
  /\ alert = ImportFailedAlert
  /\ showOnlyHolidays
  /\ holidays = InitialHolidays("import")

\* C9: after a successful import the holiday set is the list of the file's
\* events, one regular record per event in the file's order, and the
\* show-only-holidays filter is off.
C9_ImportReplacesHolidays ==
  lastOp.op = "importOk" =>
    LET events == lastOp.file.events IN
    /\ Len(holidays) = Len(events)
    /\ \A i \in 1..Len(events) :
         /\ holidays[i].date = events[i].start
         /\ holidays[i].type = "regular"
         /\ holidays[i].name =
              (IF events[i].summary = <<>> THEN UnnamedEvent
               ELSE events[i].summary)
    /\ ~showOnlyHolidays

\* a file of two events, one without summary, has just been imported
C9_Witness ==
  /\ lastOp.op = "importOk"
  /\ Len(lastOp.file.events) = 2
  /\ Len(holidays) = 2
  /\ holidays[1].name = <<"A">>
  /\ holidays[2].name = UnnamedEvent
  /\ ~showOnlyHolidays

ConsecutiveCompleteWeeks(weeks) ==
  \A w \in 1..Len(weeks) :
    /\ Len(weeks[w]) = 7
    /\ \A i \in 1..7 : weeks[w][i] = weeks[1][1] + 7 * (w - 1) + (i - 1)

\* the grid starts at the Sunday on or before the first day of the month
StartsAtSundayOnOrBefore(weeks, monthDate) ==
  /\ getDay(weeks[1][1]) = 0
  /\ weeks[1][1] <= startOfMonth(monthDate)
  /\ startOfMonth(monthDate) < weeks[1][1] + 7

\* the grid ends at the Saturday on or after the last day of the month
EndsAtSaturdayOnOrAfter(weeks, monthDate) ==
  LET last == weeks[Len(weeks)][Len(weeks[Len(weeks)])] IN
  /\ getDay(last) = 6
  /\ endOfMonth(monthDate) <= last
  /\ last - 7 < endOfMonth(monthDate)

\* C11 as stated: the grid of every rendered month is 42 consecutive days,
\* six complete weeks, from the Sunday on or before the first of the month.
C11_GridIsSixWeeksInEveryMonth ==
  probe.fn = "render" =>
    \A k \in 1..3 :
      LET month == probe.view[FALSE][k] IN
      /\ Len(month.weeks) = 6
      /\ ConsecutiveCompleteWeeks(month.weeks)
      /\ StartsAtSundayOnOrBefore(month.weeks, month.monthDate)

\* C11 amended: the grid of every rendered month is a sequence of consecutive
\* days in complete weeks, from the Sunday on or before the first of the
\* month to the Saturday on or after its last day: four, five or six weeks,
\* not always six.
C11_GridIsCompleteWeeksAroundMonth ==
  probe.fn = "render" =>
    \A k \in 1..3 :
      LET month == probe.view[FALSE][k] IN
      /\ Len(month.weeks) \in 4..6
      /\ ConsecutiveCompleteWeeks(month.weeks)
      /\ StartsAtSundayOnOrBefore(month.weeks, month.monthDate)
      /\ EndsAtSaturdayOnOrAfter(month.weeks, month.monthDate)

\* June, July and August 2025 rendered: July's grid is the 35 days from
\* 29 June to 2 August, August's the 42 days from 27 July to 6 September
C11_Witness ==
  /\ probe.fn = "render"
  /\ probe.baseDate = StartMonth + 1
  /\ LET july == probe.view[FALSE][2]
         august == probe.view[FALSE][3]
     IN /\ Len(july.weeks) = 5
        /\ format(july.weeks[1][1]) = <<2025, 6, 29>>
        /\ format(july.weeks[5][7]) = <<2025, 8, 2>>
        /\ Len(august.weeks) = 6
        /\ format(august.weeks[1][1]) = <<2025, 7, 27>>
        /\ format(august.weeks[6][7]) = <<2025, 9, 6>>

\* the background the order today, work holiday, regular holiday gives a
\* day with the holidays its cell carries
BackgroundByOrder(day, today, dayHolidays) ==
  IF day = today THEN "bg-blue-300"
  ELSE IF hasType(dayHolidays, "work") THEN "bg-green-300"
  ELSE IF hasType(dayHolidays, "regular") THEN "bg-yellow-200"
  ELSE ""

\* C12 as stated: in every variant, in a week whose regular count is 2 or
\* more no rendered day cell has a background; in every other week the
\* background follows the order today, work holiday, regular holiday, and a
\* day without holiday outside the rendered month has muted text and no
\* background unless it is today.
C12_BackgroundFollowsOverrideInEveryVariant ==
  probe.fn = "render" =>
    \A show \in BOOLEAN, k \in 1..3 :
      LET month == probe.view[show][k] IN
      \A w \in 1..Len(month.rows), i \in 1..7 :
        LET cell == month.rows[w].cells[i]
            day == month.weeks[w][i]
            regularCount == DistinctDaysInMonth(month.weeks[w], "regular",
                                                month.monthDate, probe.holidays)
        IN ~cell.omitted =>
             IF regularCount >= 2
             THEN cell.bgColor = ""
             ELSE /\ cell.bgColor =
                       BackgroundByOrder(day, probe.today, cell.holidays)
                  /\ ( /\ cell.holidays = <<>>
                       /\ getMonth(day) # MonthOfMonth(month.monthDate)
                       /\ day # probe.today )
                     => (cell.textColor = "text-gray-400" /\ cell.bgColor = "")

\* C12 amended: in the remote variant, in a week whose regular count is 2
\* or more every rendered day cell has no background and white text, and in
\* every other week the background follows the order today, work holiday,
\* regular holiday and the text is muted outside the rendered month; the
\* import variant has no override: the background follows that order in
\* every week.
C12_BackgroundFollowsOverrideInRemoteVariant ==
  probe.fn = "render" =>
    \A show \in BOOLEAN, k \in 1..3 :
      LET month == probe.view[show][k] IN
      \A w \in 1..Len(month.rows), i \in 1..7 :
        LET row == month.rows[w]
            cell == row.cells[i]
            day == month.weeks[w][i]
            muted == IF getMonth(day) = MonthOfMonth(month.monthDate)
                     THEN "text-gray-900" ELSE "text-gray-400"
        IN ~cell.omitted =>
             IF probe.variant = "remote" /\ row.counts["regular"] >= 2
             THEN cell.bgColor = "" /\ cell.textColor = "text-white"
             ELSE /\ cell.bgColor =
                       BackgroundByOrder(day, probe.today, cell.holidays)
                  /\ cell.textColor = muted

\* the remote variant renders June and July 2025 on 1 July with a regular
\* and a work holiday on 1 July and a regular holiday on 4 July: in July's
\* grid the week of 29 June is in override mode and the cell of 1 July has
\* no background; in June's grid the same week is not, and the cell of
\* 1 July has today's background and muted text
C12_Witness ==
  /\ probe.fn = "render"
  /\ probe.variant = "remote"
  /\ probe.baseDate = StartMonth + 1
  /\ probe.today = DayNumber(<<2025, 7, 1>>)
  /\ LET june == probe.view[FALSE][1].rows[5]
         july == probe.view[FALSE][2].rows[1]
     IN /\ july.counts["regular"] = 2
        /\ hasType(july.cells[3].holidays, "work")
        /\ july.cells[3].bgColor = ""
        /\ july.cells[3].textColor = "text-white"
        /\ july.cells[6].bgColor = ""
        /\ june.counts["regular"] < 2
        /\ june.cells[3].bgColor = "bg-blue-300"
        /\ june.cells[3].textColor = "text-gray-400"
        /\ june.cells[6].bgColor = ""
        /\ june.cells[6].textColor = "text-gray-400"

\* the icon of a holiday type
IconOf(type) == IF type = "work" THEN "work-icon" ELSE "regular-icon"

\* the one icon work-over-regular precedence gives a day's holidays
OneIcon(dayHolidays) ==
  << IF hasType(dayHolidays, "work") THEN "work-icon" ELSE "regular-icon" >>

====
